---- MODULE Spec2Model ----
(***************************************************************************)
(* Lifecycle orchestration of IBM Storage Protect components.              *)
(*                                                                         *)
(*   Spec        BA_SERVER_SETUP (plugins/modules/sp_server.py): one run   *)
(*               of install / upgrade / uninstall with deploy and rollback *)
(*               on a host described by the artifacts directory, the       *)
(*               Installation Manager listing and the install directory.   *)
(*   SpecClient  sp_baclient_install.main: the action determination and    *)
(*               the install / upgrade / absent branches.                  *)
(*   SpecHelper  BAClientHelper (plugins/module_utils/ba_client_utils.py): *)
(*               uninstall_ba_client, upgrade_ba_client and rollback.      *)
(*   SpecExec    exec_run, applied to one command.                         *)
(*   SpecPure    the helpers applied to one input: os_oskey,               *)
(*               find_installer over a directory listing, the version      *)
(*               comparisons, ba_is_installed over a package listing and   *)
(*               the password pre-check of sp_server.main.                 *)
(*                                                                         *)
(* A version string is a sequence of its dot-separated numeric segments    *)
(* ("1.2" is <<1, 2>>); the empty sequence stands for Python's None.       *)
(***************************************************************************)
EXTENDS Integers, Sequences, FiniteSets, TLC

VARIABLES
    \* ---- BA_SERVER_SETUP: context and arguments
    entry,              \* "run": main -> run(mode); "_upgrade": _upgrade called with component_id
    mode,               \* args.mode
    dry_run,            \* context["dry_run"]
    os_name,            \* os_oskey(ctx)["os"]
    newversion,         \* args.newversion (None when not given)
    component_id,       \* third parameter of _upgrade
    \* ---- host state
    artifacts,          \* version prefixes of the installer files in ./artifacts
    os_artifacts,       \* versions captured from the files of ./artifacts/<os_name>
    imcl_exists,        \* <install_location_im>/eclipse/tools/imcl exists
    installed,          \* version Installation Manager lists for the component
    install_dir_exists, \* ba_install_dir exists
    extracted_exists,   \* ./artifacts/extracted/input exists
    \* ---- position and locals of the run
    pc,
    caller,             \* who called _deploy: "install", "upgrade", "rollback"
    deploy_artifact,    \* version of the artifact file handed to _deploy
    deploy_version,     \* the version argument of _deploy
    sub_ok,             \* return value of the last _deploy / _uninstall
    current_version,    \* _upgrade's current_version
    current_data,       \* _deploy: what ba_is_installed returned
    \* ---- what the run did
    ops,                \* host operations, in order
    log,                \* log records, in order
    result,             \* "pending", "True", "False", "raised"
    pre_installed,      \* installed version when the run began
    \* ---- sp_baclient_install.main
    cpc,
    state,              \* module.params['state']
    force,              \* module.params['force']
    ba_client_version,  \* module.params['ba_client_version']
    version_available,  \* package_source exists on the host
    client_installed,   \* version rpm / the registry reports (None: not installed)
    action,             \* "install", "upgrade", "none"
    calls,              \* helper calls made by main, in order
    exit,               \* "pending", "exit_json(...)", "fail_json", "traceback"
    \* ---- BAClientHelper: uninstall_ba_client, upgrade_ba_client, rollback
    hpc,
    hentry,             \* the helper method that was called
    is_windows,         \* platform.system() starts with "win"
    rpm_installed,      \* packages the rpm database holds
    dirs,               \* backup directories that exist
    idx,                \* position of the loop over uninstall_order
    attempts,           \* "rpm -e" commands run: <<package, rc = 0>>
    successfully_uninstalled,
    failed_packages,
    hops,               \* other steps of the helper, in order
    hresult,            \* "pending", "True", "False", "fail_json", "raised", "returned"
    rollback_action,    \* the action argument of rollback
    pre_rpm,            \* rpm_installed when the helper was called
    results,            \* _rollback_linux: the removals of the install rollback
    \* ---- exec_run
    exec_call,          \* the arguments and the host's reaction to the command
    exec_ret,           \* what the call produced
    \* ---- pure helpers of sp_server_utils, applied to one input
    pure_call,          \* the function and its arguments
    pure_ret            \* its result; NotCalled before the call

server_vars == <<entry, mode, dry_run, os_name, newversion, component_id,
                 artifacts, os_artifacts, imcl_exists, installed,
                 install_dir_exists, extracted_exists, pc, caller,
                 deploy_artifact, deploy_version, sub_ok, current_version,
                 ops, log, result, pre_installed, current_data>>

client_vars == <<cpc, state, force, ba_client_version, version_available,
                 client_installed, action, calls, exit>>

helper_vars == <<hpc, hentry, is_windows, rpm_installed, dirs, idx, attempts,
                 successfully_uninstalled, failed_packages, hops, hresult,
                 rollback_action, pre_rpm, results>>

exec_vars == <<exec_call, exec_ret>>

pure_vars == <<pure_call, pure_ret>>

vars == <<server_vars, client_vars, helper_vars, exec_vars, pure_vars>>

----------------------------------------------------------------------------
\* Bounds

MaxVersion == 2

\* the most segments a dotted version string handed to the comparison has
MaxSegments == 2

\* the most lines the package listing handed to the detector has
MaxLines == 3

\* the longest directory listing handed to find_installer
MaxFiles == 3

None == <<>>

Versions == {<<1, n>> : n \in 1..MaxVersion}

Modes == {"install", "upgrade", "uninstall"}

OsKeys == {"windows", "linux"}

----------------------------------------------------------------------------
\* Program constants

componentname == "server"

offerings_metadata == [server |-> [id |-> "com.tivoli.dsm.server"]]

min_mb == 7500

\* main stores the password in context["data"] for install and upgrade only
PasswordInContext == mode \in {"install", "upgrade"}

----------------------------------------------------------------------------
\* Version helpers

Min(a, b) == IF a < b THEN a ELSE b

\* Python's ordering of (tag, value) pairs
PairLess(p, q) == p[1] < q[1] \/ (p[1] = q[1] /\ p[2] < q[2])

\* Python's tuple ordering over sequences of (tag, value) pairs
TupleLess(a, b) ==
    \E k \in 1..(Min(Len(a), Len(b)) + 1) :
        /\ \A i \in 1..(k - 1) : a[i] = b[i]
        /\ \/ k <= Len(a) /\ k <= Len(b) /\ PairLess(a[k], b[k])
           \/ k = Len(a) + 1 /\ k <= Len(b)

\* Python's tuple ordering over sequences of integers
IntTupleLess(a, b) ==
    \E k \in 1..(Min(Len(a), Len(b)) + 1) :
        /\ \A i \in 1..(k - 1) : a[i] = b[i]
        /\ \/ k <= Len(a) /\ k <= Len(b) /\ a[k] < b[k]
           \/ k = Len(a) + 1 /\ k <= Len(b)

\* every all-digit part becomes (0, int(part))
version_parse(v) == [i \in 1..Len(v) |-> <<0, v[i]>>]

version_is_newer(current, candidate) ==
    IF current = None THEN TRUE
    ELSE TupleLess(version_parse(current), version_parse(candidate))

\* '1.2.3.4' -> (1, 2, 3, 4)
_parse_version(version_str) == [i \in 1..Len(version_str) |-> version_str[i]]

----------------------------------------------------------------------------
\* Artifact resolver and installed-state detector

MaxBy_parse_version(S) ==
    CHOOSE a \in S : \A b \in S : ~IntTupleLess(_parse_version(a), _parse_version(b))

\* find_installer(oskey, base_dir, version): files is the set of version
\* prefixes of the candidate files carrying the OS key's extension
find_installer(files, version) ==
    IF files = {} THEN [status |-> FALSE, installerfile |-> None]
    ELSE IF version # None
         THEN IF version \in files
              THEN [status |-> TRUE, installerfile |-> version]
              ELSE [status |-> FALSE, installerfile |-> None]
         ELSE [status |-> TRUE, installerfile |-> MaxBy_parse_version(files)]

\* str.lower() on the strings used as inputs
lower(str) ==
    CASE str = "Windows" -> "windows"
      [] str = "LINUX" -> "linux"
      [] str = "AIX" -> "aix"
      [] str = "RHEL" -> "rhel"
      [] str = "COM.TIVOLI.DSM.SERVER" -> "com.tivoli.dsm.server"
      [] OTHER -> str

\* What "imcl listInstalledPackages" prints: one line "<id>_<version>" per package
EmptyLine == [id |-> "", version |-> None]

ImclListing(inst) ==
    IF inst = None THEN <<EmptyLine>>
    ELSE <<[id |-> offerings_metadata[componentname].id, version |-> inst], EmptyLine>>

\* ba_is_installed(context, oskey, install_data): rc_ok is the outcome of the
\* list command when it is really run; the loop over the lines returns in its
\* first iteration
ba_is_installed(imcl, dry, rc_ok, lines, package_id) ==
    IF ~imcl THEN [status |-> FALSE, installedpackages |-> <<>>]
    ELSE IF ~dry /\ ~rc_ok THEN [status |-> FALSE, installedpackages |-> <<>>]
    ELSE LET stdlines == IF dry THEN <<EmptyLine>> ELSE lines
             line == stdlines[1]
         IN  IF lower(package_id) = lower(line.id)
             THEN [status |-> TRUE, installedpackages |-> (package_id :> line.version)]
             ELSE [status |-> TRUE, installedpackages |-> <<>>]

\* ARTIFACT_PATTERNS: the windows pattern has no capture group, so no file of
\* the directory yields a candidate there
PatternCandidates(os, files) == IF os = "windows" THEN {} ELSE files

\* _previous_artifact: the second newest candidate by version_parse, or None
_previous_artifact(os, files) ==
    LET candidates == PatternCandidates(os, files)
    IN  IF Cardinality(candidates) < 2 THEN None
        ELSE CHOOSE c \in candidates :
                Cardinality({d \in candidates :
                    TupleLess(version_parse(c), version_parse(d))}) = 1

----------------------------------------------------------------------------
\* BA_SERVER_SETUP

Done(res) == /\ result' = res
             /\ pc' = "done"

\* exec_run: a command reaches the host only when dry_run is off
Exec(trace, cmd) == IF dry_run THEN trace ELSE Append(trace, cmd)

\* fs_remove_tree followed (when it succeeded) by fs_ensure_dir, as in
\* "fs_remove_tree(...) and fs_ensure_dir(...)"; neither looks at dry_run
PrepareOps(trace, rm_ok) ==
    IF rm_ok THEN trace \o <<"fs_remove_tree", "fs_ensure_dir">>
    ELSE Append(trace, "fs_remove_tree")

PrepareDir(rm_ok, mk_ok) ==
    IF rm_ok THEN mk_ok ELSE install_dir_exists

\* _deploy's current_data before ba_is_installed is called
NoData == [status |-> FALSE, installedpackages |-> <<>>]

HostFrame == UNCHANGED <<artifacts, os_artifacts>>
RunFrame == UNCHANGED <<entry, mode, dry_run, os_name, newversion, component_id,
                        pre_installed>>
CtxFrame == /\ RunFrame
            /\ UNCHANGED current_data

\* fs_require_free_mb(context, min_mb=7500, path): free is what
\* fs_disk_free_mb reports
fs_require_free_mb(free) == free >= min_mb

\* (mutant) run that logs the failed free-space check and dispatches anyway
Run_IgnoresDiskCheck ==
    /\ pc = "start"
    /\ entry = "run"
    /\ \E free \in {min_mb - 1, min_mb} :
        /\ ops' = Append(ops, "fs_require_free_mb")
        /\ log' = IF ~fs_require_free_mb(free)
                  THEN Append(log, "need >=7500 MB free") ELSE log
        /\ IF mode = "uninstall"
           THEN /\ pc' = "uninstall"
                /\ UNCHANGED result
           ELSE IF mode = "upgrade"
           THEN Done("raised")
           ELSE /\ pc' = "install"
                /\ UNCHANGED result
    /\ HostFrame /\ CtxFrame
    /\ UNCHANGED <<imcl_exists, installed, install_dir_exists, extracted_exists,
                   caller, deploy_artifact, deploy_version, sub_ok, current_version>>
    /\ UNCHANGED <<client_vars, helper_vars, exec_vars, pure_vars>>

\* run(mode): free-space check, then dispatch
Run ==
    /\ pc = "start"
    /\ entry = "run"
    /\ \E free \in {min_mb - 1, min_mb} :
        /\ ops' = Append(ops, "fs_require_free_mb")
        /\ IF ~fs_require_free_mb(free)
           THEN /\ log' = Append(log, "need >=7500 MB free")
                /\ Done("False")
           ELSE IF mode = "uninstall"
           THEN /\ pc' = "uninstall"
                /\ UNCHANGED <<log, result>>
           ELSE IF mode = "upgrade"
           \* self._upgrade(os_name, install_path) omits component_id: TypeError
           THEN /\ Done("raised")
                /\ UNCHANGED log
           ELSE /\ pc' = "install"
                /\ UNCHANGED <<log, result>>
    /\ HostFrame /\ CtxFrame
    /\ UNCHANGED <<imcl_exists, installed, install_dir_exists, extracted_exists,
                   caller, deploy_artifact, deploy_version, sub_ok, current_version>>
    /\ UNCHANGED <<client_vars, helper_vars, exec_vars, pure_vars>>

\* _install up to the preparation of the install directory
InstallPrepare ==
    /\ pc = "install"
    /\ \E rm_ok \in BOOLEAN, mk_ok \in BOOLEAN :
        /\ (~install_dir_exists => rm_ok)
        /\ ops' = PrepareOps(IF imcl_exists THEN Exec(ops, "listInstalledPackages")
                             ELSE ops, rm_ok)
        /\ install_dir_exists' = PrepareDir(rm_ok, mk_ok)
        /\ IF rm_ok /\ mk_ok
           THEN /\ pc' = "install_find"
                /\ UNCHANGED <<log, result>>
           ELSE /\ log' = Append(log, "failed to prepare")
                /\ Done("False")
    /\ HostFrame /\ CtxFrame
    /\ UNCHANGED <<imcl_exists, installed, extracted_exists,
                   caller, deploy_artifact, deploy_version, sub_ok, current_version>>
    /\ UNCHANGED <<client_vars, helper_vars, exec_vars, pure_vars>>

\* _install: resolve the artifact and enter _deploy
InstallFind ==
    /\ pc = "install_find"
    /\ LET artifact_path_data == find_installer(artifacts, newversion)
       IN  IF ~artifact_path_data.status
           THEN /\ log' = Append(log, "no installer found")
                /\ Done("False")
                /\ UNCHANGED <<caller, deploy_artifact, deploy_version>>
           ELSE /\ caller' = "install"
                /\ deploy_artifact' = artifact_path_data.installerfile
                /\ deploy_version' = newversion
                /\ pc' = "deploy"
                /\ UNCHANGED <<log, result>>
    /\ HostFrame /\ CtxFrame
    /\ UNCHANGED <<imcl_exists, installed, install_dir_exists, extracted_exists,
                   sub_ok, current_version, ops>>
    /\ UNCHANGED <<client_vars, helper_vars, exec_vars, pure_vars>>

AfterDeploy == IF caller = "install" THEN "install_after_deploy"
               ELSE IF caller = "upgrade" THEN "upgrade_after_deploy"
               ELSE "rollback_after_deploy"

\* _deploy: extract_binary_package and the password check
DeployExtract ==
    /\ pc = "deploy"
    /\ \E rc_ok \in BOOLEAN :
        /\ (dry_run => rc_ok)
        /\ ops' = LET t == Exec(Append(ops, "_deploy"), "extract")
                  IN  IF rc_ok /\ PasswordInContext THEN t
                      ELSE Append(t, "_deploy:False")
        \* rollback extracts under ./artifacts/<os_name>, another directory
        /\ extracted_exists' = IF dry_run \/ caller = "rollback"
                               THEN extracted_exists ELSE rc_ok
        /\ IF ~rc_ok
           THEN /\ log' = Append(log, "Extrat of binary failed")
                /\ sub_ok' = FALSE
                /\ pc' = AfterDeploy
           ELSE IF ~PasswordInContext
           THEN /\ log' = Append(log, "Password not provided")
                /\ sub_ok' = FALSE
                /\ pc' = AfterDeploy
           ELSE /\ pc' = "deploy_response"
                /\ UNCHANGED <<log, sub_ok>>
    /\ HostFrame /\ CtxFrame
    /\ UNCHANGED <<imcl_exists, installed, install_dir_exists,
                   caller, deploy_artifact, deploy_version, current_version, result>>
    /\ UNCHANGED <<client_vars, helper_vars, exec_vars, pure_vars>>

\* the offerings _deploy hands to update_package_offering
final_installdata(data, version) ==
    IF componentname \in DOMAIN data.installedpackages
    THEN IF version_is_newer(data.installedpackages[componentname], version)
         THEN {componentname}
         ELSE {}
    ELSE {componentname}

\* <artifact_path.parent>/extracted/input: ./artifacts/extracted for the
\* operation's artifact; for rollback's artifact the directory the extraction
\* that just succeeded created
ResponseDirExists == IF caller = "rollback" THEN ~dry_run ELSE extracted_exists

\* _deploy: write the response file and put the offerings in it
DeployResponse ==
    /\ pc = "deploy_response"
    /\ IF ~ResponseDirExists
       \* AgentInputXMLBuilder.write_xml opens a file in a missing directory
       THEN /\ Done("raised")
            /\ UNCHANGED <<ops, log, current_data>>
       ELSE \E rc_ok \in BOOLEAN :
            LET data == ba_is_installed(imcl_exists, dry_run, rc_ok,
                                    ImclListing(installed),
                                    offerings_metadata[componentname].id)
                offering == final_installdata(data, deploy_version)
            IN  /\ current_data' = data
                /\ ops' = Append(
                            IF imcl_exists
                            THEN Exec(Append(ops, "write_xml"), "listInstalledPackages")
                            ELSE Append(ops, "write_xml"),
                            IF offering = {} THEN "update_package_offering[]"
                            ELSE "update_package_offering[server]")
                /\ log' = IF offering = {}
                          THEN Append(log, "attempting to install older version. Skipping")
                          ELSE log
                /\ pc' = "deploy_installer"
                /\ UNCHANGED result
    /\ HostFrame /\ RunFrame
    /\ UNCHANGED <<imcl_exists, installed, install_dir_exists, extracted_exists,
                   caller, deploy_artifact, deploy_version, sub_ok, current_version>>
    /\ UNCHANGED <<client_vars, helper_vars, exec_vars, pure_vars>>

OfferingSubmitted == ops[Len(ops)] = "update_package_offering[server]"

\* _deploy: dos2unix on linux, then the installer
DeployInstaller ==
    /\ pc = "deploy_installer"
    \* registered: whether the installer that exited with 0 left the package
    \* in the Installation Manager listing; _deploy looks at the exit code only
    /\ \E d2u_ok \in BOOLEAN, rc_ok \in BOOLEAN, registered \in BOOLEAN :
        /\ (dry_run \/ os_name # "linux" => d2u_ok)
        /\ (dry_run \/ ~d2u_ok => rc_ok)
        /\ (dry_run \/ ~d2u_ok \/ ~rc_ok \/ ~OfferingSubmitted => ~registered)
        /\ LET ran == d2u_ok
               ok == d2u_ok /\ rc_ok
               t1 == IF os_name = "linux" THEN Exec(ops, "dos2unix") ELSE ops
           IN  /\ ops' = Append(IF ran THEN Exec(t1, "install_cmd") ELSE t1,
                                IF ok THEN "_deploy:True" ELSE "_deploy:False")
               /\ log' = IF ~d2u_ok
                         THEN Append(log, "Error while converting binary to linux line endings")
                         ELSE log
               /\ sub_ok' = ok
               /\ IF registered
                  THEN /\ installed' = deploy_artifact
                       /\ imcl_exists' = TRUE
                       /\ install_dir_exists' = TRUE
                  ELSE UNCHANGED <<installed, imcl_exists, install_dir_exists>>
        /\ pc' = AfterDeploy
    /\ HostFrame /\ CtxFrame
    /\ UNCHANGED <<extracted_exists, caller, deploy_artifact, deploy_version,
                   current_version, result>>
    /\ UNCHANGED <<client_vars, helper_vars, exec_vars, pure_vars>>

\* (mutant) _install that returns False on a failed deploy without rolling back
InstallAfterDeploy_NoRollback ==
    /\ pc = "install_after_deploy"
    /\ IF ~sub_ok
       THEN /\ log' = Append(log, "install failed; attempting rollback")
            /\ Done("False")
       ELSE /\ log' = Append(log, "install complete")
            /\ Done("True")
    /\ HostFrame /\ CtxFrame
    /\ UNCHANGED <<imcl_exists, installed, install_dir_exists, extracted_exists,
                   caller, deploy_artifact, deploy_version, sub_ok, current_version, ops>>
    /\ UNCHANGED <<client_vars, helper_vars, exec_vars, pure_vars>>

\* _install after _deploy returned
InstallAfterDeploy ==
    /\ pc = "install_after_deploy"
    /\ IF ~sub_ok
       THEN /\ log' = Append(log, "install failed; attempting rollback")
            /\ pc' = "rollback"
            /\ UNCHANGED result
       ELSE /\ log' = Append(log, "install complete")
            /\ Done("True")
    /\ HostFrame /\ CtxFrame
    /\ UNCHANGED <<imcl_exists, installed, install_dir_exists, extracted_exists,
                   caller, deploy_artifact, deploy_version, sub_ok, current_version, ops>>
    /\ UNCHANGED <<client_vars, helper_vars, exec_vars, pure_vars>>

\* _rollback up to its call of _deploy; the caller returns False whatever
\* _rollback returns
Rollback ==
    /\ pc = "rollback"
    /\ LET prev == _previous_artifact(os_name, os_artifacts)
       IN  IF prev = None
           THEN /\ ops' = Append(ops, "_rollback")
                /\ log' = Append(log, "no previous artifact to roll back to")
                /\ Done("False")
                /\ UNCHANGED <<install_dir_exists, caller, deploy_artifact, deploy_version>>
           ELSE \E rm_ok \in BOOLEAN, mk_ok \in BOOLEAN :
                /\ (~install_dir_exists => rm_ok)
                /\ ops' = Append(ops, "_rollback") \o <<"fs_remove_tree", "fs_ensure_dir">>
                /\ install_dir_exists' =
                      IF mk_ok THEN TRUE
                      ELSE IF rm_ok THEN FALSE ELSE install_dir_exists
                /\ caller' = "rollback"
                /\ deploy_artifact' = prev
                /\ deploy_version' = prev
                /\ pc' = "deploy"
                /\ UNCHANGED <<log, result>>
    /\ HostFrame /\ CtxFrame
    /\ UNCHANGED <<imcl_exists, installed, extracted_exists, sub_ok, current_version>>
    /\ UNCHANGED <<client_vars, helper_vars, exec_vars, pure_vars>>

\* _rollback after its _deploy returned, and the caller's "return False"
RollbackAfterDeploy ==
    /\ pc = "rollback_after_deploy"
    /\ log' = Append(log, IF sub_ok THEN "rolled back to" ELSE "rollback failed to")
    /\ Done("False")
    /\ HostFrame /\ CtxFrame
    /\ UNCHANGED <<imcl_exists, installed, install_dir_exists, extracted_exists,
                   caller, deploy_artifact, deploy_version, sub_ok, current_version, ops>>
    /\ UNCHANGED <<client_vars, helper_vars, exec_vars, pure_vars>>

\* _uninstall: locate imcl and resolve the artifact
Uninstall ==
    /\ pc = "uninstall"
    /\ \E reg_found \in BOOLEAN :
        /\ (os_name # "windows" => reg_found)
        /\ IF ~reg_found
           \* winreg_query_value returned None: os.path.join(None, ...) raises
           THEN /\ Done("raised")
                /\ UNCHANGED <<log, sub_ok>>
           ELSE IF ~find_installer(artifacts, newversion).status
           THEN /\ log' = Append(log, "no installer found")
                /\ IF mode = "uninstall"
                   THEN Done("False") /\ UNCHANGED sub_ok
                   ELSE /\ sub_ok' = FALSE
                        /\ pc' = "upgrade_after_uninstall"
                        /\ UNCHANGED result
           ELSE /\ pc' = "undeploy"
                /\ UNCHANGED <<log, result, sub_ok>>
    /\ HostFrame /\ CtxFrame
    /\ UNCHANGED <<imcl_exists, installed, install_dir_exists, extracted_exists,
                   caller, deploy_artifact, deploy_version, current_version, ops>>
    /\ UNCHANGED <<client_vars, helper_vars, exec_vars, pure_vars>>

\* _undeploy: write the uninstall response file and run imcl
Undeploy ==
    /\ pc = "undeploy"
    /\ IF ~extracted_exists
       THEN /\ Done("raised")
            /\ UNCHANGED <<ops, installed, sub_ok>>
       ELSE \E rc_ok \in BOOLEAN :
            /\ (dry_run => rc_ok)
            /\ ops' = Exec(Append(ops, "write_xml"), "uninstall_cmd")
            /\ installed' = IF rc_ok /\ ~dry_run THEN None ELSE installed
            /\ IF mode = "uninstall"
               THEN /\ Done(IF rc_ok THEN "True" ELSE "False")
                    /\ UNCHANGED sub_ok
               ELSE /\ sub_ok' = rc_ok
                    /\ pc' = "upgrade_after_uninstall"
                    /\ UNCHANGED result
    /\ HostFrame /\ CtxFrame
    /\ UNCHANGED <<imcl_exists, install_dir_exists, extracted_exists,
                   caller, deploy_artifact, deploy_version, current_version, log>>
    /\ UNCHANGED <<client_vars, helper_vars, exec_vars, pure_vars>>

\* _upgrade(os_name, install_path, component_id) up to its call of _uninstall
Upgrade ==
    /\ pc = "upgrade"
    /\ \E rc_ok \in BOOLEAN :
        LET _installstatus == ba_is_installed(imcl_exists, dry_run, rc_ok,
                                  ImclListing(installed),
                                  offerings_metadata[componentname].id)
            packages == _installstatus.installedpackages
            current == IF component_id \in DOMAIN packages
                       THEN packages[component_id] ELSE None
            candidate_version == newversion
            artifact_path_data == find_installer(artifacts, candidate_version)
        IN  /\ ops' = IF imcl_exists THEN Exec(ops, "listInstalledPackages") ELSE ops
            /\ IF ~_installstatus.status
               THEN /\ log' = Append(log, "IMCL not found or list failed")
                    /\ Done("False")
                    /\ UNCHANGED <<current_version, deploy_artifact>>
               ELSE IF current = None
               THEN /\ log' = Append(log, "SP Server package is not installed")
                    /\ Done("False")
                    /\ UNCHANGED <<current_version, deploy_artifact>>
               ELSE IF ~artifact_path_data.status
               THEN /\ log' = Append(log, "no installer found")
                    /\ Done("False")
                    /\ UNCHANGED <<current_version, deploy_artifact>>
               ELSE IF candidate_version = None
               \* version_is_newer(current, None): version_parse(None) raises
               THEN /\ Done("raised")
                    /\ UNCHANGED <<log, current_version, deploy_artifact>>
               ELSE IF ~version_is_newer(current, candidate_version)
               THEN /\ log' = Append(log, "already up to date")
                    /\ Done("True")
                    /\ UNCHANGED <<current_version, deploy_artifact>>
               ELSE /\ current_version' = current
                    /\ deploy_artifact' = artifact_path_data.installerfile
                    /\ pc' = "uninstall"
                    /\ UNCHANGED <<log, result>>
    /\ HostFrame /\ CtxFrame
    /\ UNCHANGED <<imcl_exists, installed, install_dir_exists, extracted_exists,
                   caller, deploy_version, sub_ok>>
    /\ UNCHANGED <<client_vars, helper_vars, exec_vars, pure_vars>>

\* _upgrade after _uninstall returned: re-create the directory, enter _deploy
UpgradeAfterUninstall ==
    /\ pc = "upgrade_after_uninstall"
    /\ IF ~sub_ok
       THEN /\ log' = Append(log, "uninstall failed; aborting upgrade")
            /\ Done("False")
            /\ UNCHANGED <<ops, install_dir_exists, caller, deploy_version>>
       ELSE \E rm_ok \in BOOLEAN, mk_ok \in BOOLEAN :
            /\ (~install_dir_exists => rm_ok)
            /\ ops' = PrepareOps(ops, rm_ok)
            /\ install_dir_exists' = PrepareDir(rm_ok, mk_ok)
            /\ IF rm_ok /\ mk_ok
               THEN /\ caller' = "upgrade"
                    /\ deploy_version' = newversion
                    /\ pc' = "deploy"
                    /\ UNCHANGED <<log, result>>
               ELSE /\ log' = Append(log, "failed to re-create")
                    /\ Done("False")
                    /\ UNCHANGED <<caller, deploy_version>>
    /\ HostFrame /\ CtxFrame
    /\ UNCHANGED <<imcl_exists, installed, extracted_exists,
                   deploy_artifact, sub_ok, current_version>>
    /\ UNCHANGED <<client_vars, helper_vars, exec_vars, pure_vars>>

\* _upgrade after _deploy returned
UpgradeAfterDeploy ==
    /\ pc = "upgrade_after_deploy"
    /\ IF ~sub_ok
       THEN /\ log' = Append(log, "upgrade install failed; rolling back")
            /\ pc' = "rollback"
            /\ UNCHANGED result
       ELSE /\ log' = Append(log, "upgrade complete")
            /\ Done("True")
    /\ HostFrame /\ CtxFrame
    /\ UNCHANGED <<imcl_exists, installed, install_dir_exists, extracted_exists,
                   caller, deploy_artifact, deploy_version, sub_ok, current_version, ops>>
    /\ UNCHANGED <<client_vars, helper_vars, exec_vars, pure_vars>>

----------------------------------------------------------------------------
\* sp_baclient_install.main

\* [int(x) for x in ver.split('.')]
normalize_version(ver) == [i \in 1..Len(ver) |-> ver[i]]

\* step 2 of main: "Determine action"
DetermineAction(installed_version, version, available) ==
    LET installed_version_list ==
            IF installed_version # None THEN normalize_version(installed_version) ELSE <<>>
        user_version_list ==
            IF version # None THEN normalize_version(version) ELSE <<>>
    IN  IF installed_version # None
           /\ IntTupleLess(installed_version_list, user_version_list)
           /\ available
        THEN "upgrade"
        ELSE IF installed_version = None /\ available
        THEN "install"
        ELSE "none"

Outcomes == {"ok", "fail_json", "exception"}

ClientExit(how) == /\ exit' = how
                   /\ cpc' = "done"

\* how an "except Exception" handler of main ends: utils.rollback(...) and
\* then exit_json(changed=False); on Windows rollback raises inside the
\* handler (the module shim has no warn method) and main ends with a traceback
AfterHandler == IF is_windows THEN "traceback" ELSE "exit_json(changed=False)"

ClientFrame == /\ UNCHANGED <<state, force, ba_client_version, version_available>>
               /\ UNCHANGED <<server_vars, helper_vars, exec_vars, pure_vars>>

\* main up to the action branches: check_installed and the action
ClientStart ==
    /\ cpc = "start"
    /\ \E check \in {"ok", "fail_json"} :
        /\ calls' = Append(calls, "check_installed")
        /\ IF check = "fail_json"
           THEN /\ ClientExit("fail_json")
                /\ UNCHANGED action
           ELSE LET a == DetermineAction(client_installed, ba_client_version,
                                         version_available)
                IN  /\ action' = a
                    /\ cpc' = IF a = "install" THEN "install"
                              ELSE IF a = "upgrade" THEN "upgrade"
                              ELSE IF state = "absent" THEN "absent"
                              ELSE "fallback"
                    /\ UNCHANGED exit
    /\ UNCHANGED client_installed
    /\ ClientFrame

\* the branch "if action == 'install'"
ClientInstall ==
    /\ cpc = "install"
    /\ \E prereqs \in {"ok", "fail_json"}, outcome \in Outcomes, v \in Versions :
        IF prereqs = "fail_json"
        THEN /\ calls' = calls \o <<"check_installed", "verify_system_prereqs">>
             /\ ClientExit("fail_json")
             /\ UNCHANGED client_installed
        ELSE IF outcome = "ok"
        THEN /\ calls' = calls \o <<"check_installed", "verify_system_prereqs",
                                    "install_ba_client", "configure_ba_client",
                                    "post_installation_verification",
                                    "start_baclient_daemon">>
             /\ client_installed' = v
             /\ ClientExit("exit_json(changed=True)")
        ELSE IF outcome = "fail_json"
        \* fail_json leaves through SystemExit, which "except Exception" lets pass
        THEN /\ calls' = calls \o <<"check_installed", "verify_system_prereqs",
                                    "install_ba_client">>
             /\ ClientExit("fail_json")
             /\ UNCHANGED client_installed
        ELSE /\ calls' = calls \o <<"check_installed", "verify_system_prereqs",
                                    "install_ba_client", "rollback(install)">>
             /\ ClientExit(AfterHandler)
             /\ UNCHANGED client_installed
    /\ UNCHANGED action
    /\ ClientFrame

\* the branch "elif action == 'upgrade'"
ClientUpgrade ==
    /\ cpc = "upgrade"
    /\ \E outcome \in Outcomes, v \in Versions :
        IF outcome = "ok"
        THEN /\ calls' = Append(calls, "upgrade_ba_client")
             /\ client_installed' = v
             /\ ClientExit("exit_json(changed=True)")
        ELSE IF outcome = "fail_json"
        THEN /\ calls' = Append(calls, "upgrade_ba_client")
             /\ ClientExit("fail_json")
             /\ client_installed' \in {client_installed, None}
        ELSE /\ calls' = calls \o <<"upgrade_ba_client", "rollback(upgrade)">>
             /\ ClientExit(AfterHandler)
             /\ client_installed' \in {client_installed, None}
    /\ UNCHANGED action
    /\ ClientFrame

\* the branch "elif state == 'absent'"
ClientAbsent ==
    /\ cpc = "absent"
    /\ IF client_installed = None
       THEN /\ ClientExit("exit_json(changed=False)")
            /\ UNCHANGED <<calls, client_installed>>
       ELSE \E outcome \in Outcomes :
            IF outcome = "ok"
            THEN /\ calls' = Append(calls, "uninstall_ba_client")
                 /\ client_installed' = None
                 /\ ClientExit("exit_json(changed=True)")
            ELSE IF outcome = "fail_json"
            THEN /\ calls' = Append(calls, "uninstall_ba_client")
                 /\ ClientExit("fail_json")
                 /\ UNCHANGED client_installed
            ELSE /\ calls' = calls \o <<"uninstall_ba_client", "rollback(uninstall)">>
                 /\ ClientExit(AfterHandler)
                 /\ UNCHANGED client_installed
    /\ UNCHANGED action
    /\ ClientFrame

\* the fallback exit_json at the end of main
ClientFallback ==
    /\ cpc = "fallback"
    /\ ClientExit("exit_json(changed=False)")
    /\ UNCHANGED <<action, calls, client_installed>>
    /\ ClientFrame

----------------------------------------------------------------------------
\* BAClientHelper.uninstall_ba_client

uninstall_order == <<"TIVsm-BAcit", "TIVsm-BAhdw", "TIVsm-WEBGUI", "TIVsm-JBB",
                     "TIVsm-BA", "TIVsm-APIcit", "TIVsm-API64",
                     "gskssl64", "gskcrypt64">>

Packages == {uninstall_order[i] : i \in DOMAIN uninstall_order}

\* uninstall_ba_client's backup_dir and the backup_dir of _rollback_linux
backup_dir == "/opt/baClientPackagesBk"

\* upgrade_ba_client's backup_dir: os.path.join(temp_dir, "backup_old_rpms")
upgrade_backup_dir == "<temp_dir>/backup_old_rpms"

HelperDone(res) == /\ hresult' = res
                   /\ hpc' = "done"

HelperEntryFrame ==
    /\ UNCHANGED <<hentry, is_windows, rollback_action, pre_rpm>>
    /\ UNCHANGED <<server_vars, client_vars, exec_vars, pure_vars>>

HelperFrame == /\ UNCHANGED <<hentry, is_windows, rollback_action, pre_rpm, results>>
               /\ UNCHANGED <<server_vars, client_vars, exec_vars, pure_vars>>

\* where uninstall_ba_client returns to
AfterUninstall == IF hentry = "upgrade_ba_client" THEN "upgrade_install" ELSE "done"

\* uninstall_ba_client up to its loop
UninstallStart ==
    /\ hpc = "uninstall"
    /\ IF is_windows
       THEN \E rc_ok \in BOOLEAN :
            /\ hops' = Append(hops, "powershell Uninstall()")
            /\ rpm_installed' = IF rc_ok THEN {} ELSE rpm_installed
            /\ IF rc_ok
               THEN /\ hpc' = AfterUninstall
                    /\ hresult' = IF hentry = "uninstall_ba_client" THEN "True" ELSE hresult
               ELSE HelperDone("fail_json")
            /\ UNCHANGED <<dirs, idx>>
       ELSE IF "TIVsm-BA" \notin rpm_installed
       THEN /\ hpc' = AfterUninstall
            /\ hresult' = IF hentry = "uninstall_ba_client" THEN "False" ELSE hresult
            /\ UNCHANGED <<hops, rpm_installed, dirs, idx>>
       ELSE /\ hops' = Append(hops, "makedirs(backup_dir)")
            /\ dirs' = dirs \cup {backup_dir}
            /\ idx' = 1
            /\ hpc' = "uninstall_loop"
            /\ UNCHANGED <<rpm_installed, hresult>>
    /\ UNCHANGED <<attempts, successfully_uninstalled, failed_packages>>
    /\ HelperFrame

\* (mutant) a loop that stops at the first removal that fails
UninstallStep_StopAtFailure ==
    /\ hpc = "uninstall_loop"
    /\ idx <= Len(uninstall_order)
    /\ LET pkg == uninstall_order[idx]
       IN  IF pkg \notin rpm_installed
           THEN /\ idx' = idx + 1
                /\ UNCHANGED <<rpm_installed, attempts, successfully_uninstalled,
                               failed_packages>>
           ELSE \E rc_ok \in BOOLEAN :
                /\ attempts' = Append(attempts, <<pkg, rc_ok>>)
                /\ IF rc_ok
                   THEN /\ successfully_uninstalled' = Append(successfully_uninstalled, pkg)
                        /\ rpm_installed' = rpm_installed \ {pkg}
                        /\ idx' = idx + 1
                        /\ UNCHANGED failed_packages
                   ELSE /\ failed_packages' = Append(failed_packages, pkg)
                        /\ idx' = Len(uninstall_order) + 1
                        /\ UNCHANGED <<successfully_uninstalled, rpm_installed>>
    /\ UNCHANGED <<hpc, dirs, hops, hresult>>
    /\ HelperFrame

\* one iteration of "for pkg in uninstall_order"
UninstallStep ==
    /\ hpc = "uninstall_loop"
    /\ idx <= Len(uninstall_order)
    /\ LET pkg == uninstall_order[idx]
       IN  IF pkg \notin rpm_installed
           THEN UNCHANGED <<rpm_installed, attempts, successfully_uninstalled,
                            failed_packages>>
           ELSE \E rc_ok \in BOOLEAN :
                /\ attempts' = Append(attempts, <<pkg, rc_ok>>)
                /\ IF rc_ok
                   THEN /\ successfully_uninstalled' = Append(successfully_uninstalled, pkg)
                        /\ rpm_installed' = rpm_installed \ {pkg}
                        /\ UNCHANGED failed_packages
                   ELSE /\ failed_packages' = Append(failed_packages, pkg)
                        /\ UNCHANGED <<successfully_uninstalled, rpm_installed>>
    /\ idx' = idx + 1
    /\ UNCHANGED <<hpc, dirs, hops, hresult>>
    /\ HelperFrame

\* (mutant) an end of uninstall_ba_client that discards the backup directory
\* before it looks at failed_packages
UninstallFinish_AlwaysCleans ==
    /\ hpc = "uninstall_loop"
    /\ idx > Len(uninstall_order)
    /\ dirs' = dirs \ {backup_dir}
    /\ hops' = Append(hops, "rmtree(backup_dir)")
    /\ IF failed_packages # <<>>
       THEN HelperDone("fail_json")
       ELSE /\ hpc' = AfterUninstall
            /\ hresult' = IF hentry = "uninstall_ba_client" THEN "True" ELSE hresult
    /\ UNCHANGED <<rpm_installed, idx, attempts, successfully_uninstalled,
                   failed_packages>>
    /\ HelperFrame

\* uninstall_ba_client after its loop
UninstallFinish ==
    /\ hpc = "uninstall_loop"
    /\ idx > Len(uninstall_order)
    /\ IF failed_packages # <<>>
       THEN /\ HelperDone("fail_json")
            /\ UNCHANGED <<dirs, hops>>
       ELSE /\ dirs' = dirs \ {backup_dir}
            /\ hops' = Append(hops, "rmtree(backup_dir)")
            /\ hpc' = AfterUninstall
            /\ hresult' = IF hentry = "uninstall_ba_client" THEN "True" ELSE hresult
    /\ UNCHANGED <<rpm_installed, idx, attempts, successfully_uninstalled,
                   failed_packages>>
    /\ HelperFrame

----------------------------------------------------------------------------
\* BAClientHelper.upgrade_ba_client, with the handler of main's upgrade branch

\* upgrade_ba_client up to its call of uninstall_ba_client
UpgradeClientStart ==
    /\ hpc = "upgrade"
    /\ IF "TIVsm-BA" \notin rpm_installed
       THEN /\ HelperDone("fail_json")
            /\ UNCHANGED <<dirs, hops>>
       ELSE /\ dirs' = dirs \cup {upgrade_backup_dir}
            /\ hops' = Append(hops, "makedirs(upgrade_backup_dir)")
            /\ hpc' = "uninstall"
            /\ UNCHANGED hresult
    /\ UNCHANGED <<rpm_installed, idx, attempts, successfully_uninstalled,
                   failed_packages>>
    /\ HelperFrame

\* upgrade_ba_client after uninstall_ba_client returned: install, configure,
\* verify, start the daemon, compare the version. fail_json leaves the module;
\* any other exception reaches "except Exception as upgrade_error" of main,
\* which calls rollback(action="upgrade")
UpgradeClientInstall ==
    /\ hpc = "upgrade_install"
    /\ \E outcome \in {"ok", "fail_json", "exception"}, landed \in BOOLEAN :
        /\ (outcome = "ok" => landed)
        /\ rpm_installed' = IF landed THEN Packages ELSE rpm_installed
        /\ IF outcome = "ok"
           THEN /\ HelperDone("returned")
                /\ UNCHANGED hops
           ELSE IF outcome = "fail_json"
           THEN /\ HelperDone("fail_json")
                /\ UNCHANGED hops
           ELSE /\ hops' = Append(hops, "rollback(upgrade)")
                /\ hpc' = "rollback"
                /\ UNCHANGED hresult
    /\ UNCHANGED <<dirs, idx, attempts, successfully_uninstalled, failed_packages>>
    /\ HelperFrame

\* the action rollback runs: the handler's argument, or the caller's
RollbackAction == IF hentry = "upgrade_ba_client" THEN "upgrade" ELSE rollback_action

\* the uninstall_order of _rollback_linux's install branch
rollback_uninstall_order ==
    <<"TIVsm-WEBGUI", "TIVsm-JBB", "TIVsm-BAhdw", "TIVsm-BAcit", "TIVsm-APIcit",
      "TIVsm-BA", "TIVsm-API64", "gskssl64", "gskcrypt64">>

\* the reinstall_order of _rollback_linux's uninstall branch
reinstall_order ==
    <<"gskcrypt64", "gskssl64", "TIVsm-API64", "TIVsm-APIcit", "TIVsm-BA",
      "TIVsm-BAcit", "TIVsm-BAhdw", "TIVsm-WEBGUI">>

\* BAClientHelper.rollback(action). It starts with self.module.warn(...); the
\* module get_module builds on Windows (WinModuleShim) has no warn method.
\* On Linux every command runs with check_rc=False.
rollback ==
    /\ hpc = "rollback"
    /\ IF is_windows
       THEN /\ HelperDone("raised")
            /\ UNCHANGED <<rpm_installed, dirs, hops, results>>
       ELSE IF RollbackAction = "install"
       \* "for pkg in uninstall_order": kept are the installed packages whose
       \* removal fails; the removal of a package that is not installed fails
       THEN \E kept \in SUBSET rpm_installed :
            /\ results' = [i \in DOMAIN rollback_uninstall_order |->
                              LET pkg == rollback_uninstall_order[i]
                              IN  <<pkg, pkg \in rpm_installed \ kept>>]
            /\ rpm_installed' = kept
            /\ hops' = Append(hops, "rpm -e --nodeps --noscripts")
            /\ UNCHANGED dirs
            /\ HelperDone("returned")
       ELSE \E removed \in BOOLEAN, reinstalled \in BOOLEAN :
            /\ IF RollbackAction = "uninstall"
               THEN /\ ~removed
                    /\ rpm_installed' = IF reinstalled THEN Packages ELSE rpm_installed
                    /\ hops' = Append(hops, "rpm -ivh /opt/baClient")
                    /\ UNCHANGED dirs
               ELSE /\ (backup_dir \notin dirs => ~reinstalled)
                    /\ rpm_installed' =
                          IF reinstalled THEN Packages
                          ELSE IF removed THEN {} ELSE rpm_installed
                    /\ hops' = hops \o <<"rpm -e $(rpm -qa 'TIVsm*')",
                                         "rpm -ivh backup_dir",
                                         "rollback: rmtree(backup_dir)">>
                    /\ dirs' = dirs \ {backup_dir}
            /\ UNCHANGED results
            /\ HelperDone("returned")
    /\ UNCHANGED <<idx, attempts, successfully_uninstalled, failed_packages>>
    /\ HelperEntryFrame

----------------------------------------------------------------------------
\* exec_run (module_utils/sp_server_utils.py and modules/tasks/utils.py)

\* the two implementations
ExecImpls == {"sp_server_utils", "tasks/utils"}

\* os_oskey(context)["os"]
ExecOs == {"linux", "windows", "aix"}

\* the command: a string, a string with a quote that is never closed, a list
CmdShapes == {"str", "str_unclosed_quote", "list"}

\* what the host does with the process: exit status 0 or 1, or subprocess.run
\* raising FileNotFoundError, PermissionError or TimeoutExpired
HostOutcomes == {"rc0", "rc1", "FileNotFoundError", "PermissionError",
                 "TimeoutExpired"}

NoResult == [state |-> "pending", exception |-> "", rc |-> 0, stdout |-> "",
             stderr |-> "", started |-> FALSE]

Returned(rc, out, err, started) ==
    [state |-> "returned", exception |-> "", rc |-> rc, stdout |-> out,
     stderr |-> err, started |-> started]

Raised(exc) ==
    [state |-> "raised", exception |-> exc, rc |-> 0, stdout |-> "",
     stderr |-> "", started |-> FALSE]

\* shlex.split(cmd): the exception it raises, "" when it returns the words
shlex_split(cmd) ==
    IF cmd = "list" THEN "AttributeError"
    ELSE IF cmd = "str_unclosed_quote" THEN "ValueError"
    ELSE ""

\* from the dry-run test on, the same in both implementations
exec_run_body(c) ==
    IF c.dry_run THEN Returned(0, "", "", FALSE)
    ELSE IF c.host = "rc0" THEN Returned(0, "out", "", TRUE)
    ELSE IF c.host = "rc1" THEN Returned(1, "out", "err", TRUE)
    \* except Exception as e: rc 127, stderr str(e)
    ELSE Returned(127, "", c.host, c.host = "TimeoutExpired")

\* exec_run(context, cmd, ...). In sp_server_utils "type(cmd) is not List"
\* is true of every str and every list, so on linux shlex.split(cmd) always
\* runs, before the dry-run test and outside the try block
exec_run(c) ==
    IF c.impl = "sp_server_utils" /\ c.os = "linux" /\ shlex_split(c.cmd) # ""
    THEN Raised(shlex_split(c.cmd))
    ELSE exec_run_body(c)

ExecRun ==
    /\ exec_ret = NoResult
    /\ exec_call.impl # ""
    /\ exec_ret' = exec_run(exec_call)
    /\ UNCHANGED exec_call
    /\ UNCHANGED <<server_vars, client_vars, helper_vars, pure_vars>>

----------------------------------------------------------------------------
\* Pure helpers of module_utils/sp_server_utils.py

NotCalled == [state |-> "not called"]

PureFrame == /\ UNCHANGED pure_call
             /\ UNCHANGED <<server_vars, client_vars, helper_vars, exec_vars>>

\* os_oskey(context): family and id are context["os"]["family"] and ["id"]
\* ("" when missing or None)
os_oskey(family_in, id_in) ==
    LET family == lower(family_in)
        distro_id == lower(id_in)
        os_family == IF family = "windows" THEN "windows"
                     ELSE IF family = "linux" THEN "linux"
                     ELSE IF family \in {"aix", "unix"} THEN family
                     ELSE IF family # "" THEN family ELSE "unknown"
        rhel_like == {"rhel", "centos", "rocky", "almalinux", "oraclelinux"}
        osname == IF os_family = "linux"
                   THEN IF distro_id \in rhel_like THEN "rhel"
                        ELSE IF distro_id # "" THEN distro_id ELSE "linux"
                   ELSE IF distro_id # "" THEN distro_id ELSE os_family
    IN  [os |-> os_family, osname |-> osname]

\* the key run uses for paths and artifacts: os_oskey(self.ctx)["os"]
run_os_name(family_in, id_in) == os_oskey(family_in, id_in).os

Families == {"windows", "Windows", "linux", "LINUX", "aix", "AIX", "unix",
             "darwin", ""}

DistroIds == {"rhel", "RHEL", "centos", "rocky", "almalinux", "oraclelinux",
              "ubuntu", "sles", ""}

OsOskeyCalls == [fn : {"os_oskey"}, family : Families, id : DistroIds]

OsOskey ==
    /\ pure_ret = NotCalled
    /\ pure_call.fn = "os_oskey"
    /\ pure_ret' = [state |-> "returned",
                    value |-> os_oskey(pure_call.family, pure_call.id),
                    key |-> run_os_name(pure_call.family, pure_call.id)]
    /\ PureFrame

\* ---- find_installer over a directory listing

\* a file "<version>-<tag><suffix>"; version None: a name without a hyphen
InstallerFiles ==
    {[version |-> v, tag |-> t, suffix |-> ".bin"] : v \in Versions, t \in {"A", "B"}}
    \cup {[version |-> None, tag |-> "setup", suffix |-> ".bin"],
          [version |-> <<1, 1>>, tag |-> "A", suffix |-> ".exe"]}

TagRank(t) == IF t = "A" THEN 1 ELSE IF t = "B" THEN 2 ELSE 3

\* p.name < q.name for two files of one extension; a name that starts with
\* a digit sorts before "setup", and the segments here are single digits
NameLess(p, q) ==
    IF p.version = None THEN q.version = None /\ TagRank(p.tag) < TagRank(q.tag)
    ELSE \/ q.version = None
         \/ IntTupleLess(p.version, q.version)
         \/ p.version = q.version /\ TagRank(p.tag) < TagRank(q.tag)

\* base_path.iterdir(): the files in the order the directory yields them
Listings ==
    {l \in UNION {[1..n -> InstallerFiles] : n \in 0..MaxFiles} :
        \A i, j \in DOMAIN l : i # j => l[i] # l[j]}

RECURSIVE InsertByName(_, _)
InsertByName(sorted, x) ==
    IF sorted = <<>> THEN <<x>>
    ELSE IF NameLess(x, Head(sorted)) THEN <<x>> \o sorted
    ELSE <<Head(sorted)>> \o InsertByName(Tail(sorted), x)

\* list.sort(key=lambda p: p.name)
RECURSIVE SortByName(_)
SortByName(seq) ==
    IF seq = <<>> THEN <<>>
    ELSE InsertByName(SortByName(SubSeq(seq, 1, Len(seq) - 1)), seq[Len(seq)])

\* x goes behind every element whose key is not smaller: equal keys keep
\* the order they came in
RECURSIVE InsertByVersionDesc(_, _)
InsertByVersionDesc(sorted, x) ==
    IF sorted = <<>> THEN <<x>>
    ELSE IF IntTupleLess(_parse_version(Head(sorted).version), _parse_version(x.version))
    THEN <<x>> \o sorted
    ELSE <<Head(sorted)>> \o InsertByVersionDesc(Tail(sorted), x)

\* versioned.sort(key=lambda x: x[2], reverse=True), a stable sort
RECURSIVE SortByVersionDesc(_)
SortByVersionDesc(seq) ==
    IF seq = <<>> THEN <<>>
    ELSE InsertByVersionDesc(SortByVersionDesc(SubSeq(seq, 1, Len(seq) - 1)),
                             seq[Len(seq)])

NotFound == [status |-> FALSE, installerfile |-> None, other_files |-> <<>>]

\* the extension find_installer derives from oskey
InstallerExt(oskey) == IF oskey = "windows" THEN ".exe" ELSE ".bin"

\* find_installer(oskey, base_dir, version=version) on the listing of base_dir
find_installer_in(listing, oskey, version) ==
    LET candidates == SelectSeq(listing, LAMBDA p : p.suffix = InstallerExt(oskey))
    IN  IF candidates = <<>> THEN NotFound
        ELSE IF version # None
        THEN LET matches == SelectSeq(candidates, LAMBDA p : p.version = version)
                 sorted == SortByName(matches)
             IN  IF matches = <<>> THEN NotFound
                 ELSE [status |-> TRUE, installerfile |-> Head(sorted),
                       other_files |-> Tail(sorted)]
        ELSE LET versioned == SelectSeq(candidates, LAMBDA p : p.version # None)
             IN  IF versioned = <<>>
                 THEN LET sorted == SortByName(candidates)
                      IN  [status |-> TRUE, installerfile |-> sorted[Len(sorted)],
                           other_files |-> SubSeq(sorted, 1, Len(sorted) - 1)]
                 ELSE LET sorted == SortByVersionDesc(versioned)
                      IN  [status |-> TRUE, installerfile |-> Head(sorted),
                           other_files |-> Tail(sorted)]

FindInstallerCalls ==
    [fn : {"find_installer"}, listing : Listings, oskey : OsKeys,
     version : Versions \cup {None}]

\* (mutant) a resolver that takes the first match in directory order
FindInstaller_FirstListed ==
    /\ pure_ret = NotCalled
    /\ pure_call.fn = "find_installer"
    /\ LET matches == SelectSeq(pure_call.listing,
                          LAMBDA p : /\ p.suffix = InstallerExt(pure_call.oskey)
                                     /\ p.version = pure_call.version)
       IN  pure_ret' =
             [state |-> "returned",
              value |-> IF pure_call.version = None
                        THEN find_installer_in(pure_call.listing, pure_call.oskey, None)
                        ELSE IF matches = <<>> THEN NotFound
                        ELSE [status |-> TRUE, installerfile |-> Head(matches),
                              other_files |-> Tail(matches)]]
    /\ PureFrame

FindInstaller ==
    /\ pure_ret = NotCalled
    /\ pure_call.fn = "find_installer"
    /\ pure_ret' = [state |-> "returned",
                    value |-> find_installer_in(pure_call.listing, pure_call.oskey,
                                                pure_call.version)]
    /\ PureFrame

\* ---- version comparison over dotted strings

\* the segments a version string is made of, as their digits: "10" is <<1, 0>>
DigitStrings == {<<0>>, <<1>>, <<2>>, <<9>>, <<1, 0>>, <<0, 9>>}

\* a dotted version string, as the sequence of its segments
VersionStrings == UNION {[1..n -> DigitStrings] : n \in 1..MaxSegments}

\* int(p) of an all-digit string
RECURSIVE int(_)
int(digits) ==
    IF digits = <<>> THEN 0
    ELSE int(SubSeq(digits, 1, Len(digits) - 1)) * 10 + digits[Len(digits)]

\* the parts of a version string after int(): what version_parse,
\* _parse_version and normalize_version work on
Segments(vstr) == [i \in 1..Len(vstr) |-> int(vstr[i])]

VersionCompareCalls ==
    {c \in [fn : {"version_compare"}, a : VersionStrings, b : VersionStrings] :
        Len(c.a) = Len(c.b)}

\* (mutant) a comparison of the segments as strings, character by character
VersionCompare_AsStrings ==
    /\ pure_ret = NotCalled
    /\ pure_call.fn = "version_compare"
    /\ LET StrLess(x, y) == IntTupleLess(x, y)
           less == \E k \in 1..Len(pure_call.a) :
                      /\ \A i \in 1..(k - 1) : pure_call.a[i] = pure_call.b[i]
                      /\ StrLess(pure_call.a[k], pure_call.b[k])
       IN  pure_ret' = [state |-> "returned", newer |-> less, parsed_less |-> less,
                        normalized_less |-> less]
    /\ PureFrame

\* version_is_newer(a, b), _parse_version(a) < _parse_version(b) and
\* normalize_version(b) > normalize_version(a) for two version strings
VersionCompare ==
    /\ pure_ret = NotCalled
    /\ pure_call.fn = "version_compare"
    /\ LET a == Segments(pure_call.a)
           b == Segments(pure_call.b)
       IN  pure_ret' =
             [state |-> "returned",
              newer |-> version_is_newer(a, b),
              parsed_less |-> IntTupleLess(_parse_version(a), _parse_version(b)),
              normalized_less |-> IntTupleLess(normalize_version(a),
                                               normalize_version(b))]
    /\ PureFrame

\* ---- the detector over package listings

\* the lines a listing is made of: the component's line (as printed, or in
\* upper case), another package's line, an empty line, a line that is no
\* package line at all
ListingLines ==
    {[id |-> "com.tivoli.dsm.server", version |-> <<1, 1>>],
     [id |-> "COM.TIVOLI.DSM.SERVER", version |-> <<1, 1>>],
     [id |-> "com.ibm.cic.agent", version |-> <<1, 1>>],
     EmptyLine,
     [id |-> "?", version |-> None]}

\* resp["stdout"].split("\n") has at least one element
IsInstalledCalls ==
    {[fn |-> "ba_is_installed", lines |-> l] :
        l \in UNION {[1..n -> ListingLines] : n \in 1..MaxLines}}

\* ba_is_installed with the tracking tool present and the list command at rc 0
IsInstalled ==
    /\ pure_ret = NotCalled
    /\ pure_call.fn = "ba_is_installed"
    /\ LET r == ba_is_installed(TRUE, FALSE, TRUE, pure_call.lines,
                                offerings_metadata[componentname].id)
       IN  pure_ret' = [state |-> "returned", status |-> r.status,
                        installedpackages |-> r.installedpackages]
    /\ PureFrame

\* ---- sp_server.main: the password pre-check

\* Python's None among the password strings
PyNone == "None"

\* os.getenv("SP_BA_SERVER_PASSWORD", None): unset, set to the empty string,
\* set to a password
EnvPasswords == {PyNone, "", "env-secret"}

\* args.serverpassword: not given, or given
CliPasswords == {PyNone, "cli-secret"}

find_ba_server_password(pwd_in_envvar, serverpassword) ==
    IF pwd_in_envvar # PyNone THEN pwd_in_envvar
    ELSE IF serverpassword # PyNone THEN serverpassword
    ELSE PyNone

MainCalls == [fn : {"main"}, mode : Modes, envvar : EnvPasswords,
              serverpassword : CliPasswords]

\* (mutant) main with a lookup that prefers the command line argument
Main_CliFirst ==
    /\ pure_ret = NotCalled
    /\ pure_call.fn = "main"
    /\ IF pure_call.mode = "install" \/ pure_call.mode = "upgrade"
       THEN LET _pwd == IF pure_call.serverpassword # PyNone
                        THEN pure_call.serverpassword ELSE pure_call.envvar
            IN  IF _pwd = PyNone
                THEN pure_ret' = [state |-> "sys.exit(-1)", password_in_data |-> FALSE,
                                  password |-> PyNone, constructed |-> FALSE]
                ELSE pure_ret' = [state |-> "returned", password_in_data |-> TRUE,
                                  password |-> _pwd, constructed |-> TRUE]
       ELSE pure_ret' = [state |-> "returned", password_in_data |-> FALSE,
                         password |-> PyNone, constructed |-> TRUE]
    /\ PureFrame

\* main from the pre-check to the construction of BA_SERVER_SETUP: it has
\* left through sys.exit(-1), or constructed BA_SERVER_SETUP with this
\* context["data"]
Main ==
    /\ pure_ret = NotCalled
    /\ pure_call.fn = "main"
    /\ IF pure_call.mode = "install" \/ pure_call.mode = "upgrade"
       THEN LET _pwd == find_ba_server_password(pure_call.envvar,
                                                pure_call.serverpassword)
            IN  IF _pwd = PyNone
                THEN pure_ret' = [state |-> "sys.exit(-1)", password_in_data |-> FALSE,
                                  password |-> PyNone, constructed |-> FALSE]
                ELSE pure_ret' = [state |-> "returned", password_in_data |-> TRUE,
                                  password |-> _pwd, constructed |-> TRUE]
       ELSE pure_ret' = [state |-> "returned", password_in_data |-> FALSE,
                         password |-> PyNone, constructed |-> TRUE]
    /\ PureFrame

----------------------------------------------------------------------------
\* Specifications

ServerInit ==
    /\ entry \in {"run", "_upgrade"}
    /\ mode \in (IF entry = "run" THEN Modes ELSE {"upgrade"})
    /\ component_id \in (IF entry = "run" THEN {""}
                         ELSE {offerings_metadata[componentname].id, componentname})
    /\ dry_run \in BOOLEAN
    /\ os_name \in OsKeys
    /\ newversion \in Versions \cup {None}
    /\ artifacts \in SUBSET Versions
    /\ os_artifacts \in SUBSET Versions
    /\ imcl_exists \in BOOLEAN
    /\ installed \in (IF imcl_exists THEN Versions \cup {None} ELSE {None})
    /\ install_dir_exists \in BOOLEAN
    /\ extracted_exists \in BOOLEAN
    /\ pc = IF entry = "run" THEN "start" ELSE "upgrade"
    /\ caller = ""
    /\ deploy_artifact = None
    /\ deploy_version = None
    /\ sub_ok = FALSE
    /\ current_version = None
    /\ current_data = NoData
    /\ ops = <<>>
    /\ log = <<>>
    /\ result = "pending"
    /\ pre_installed = installed

ClientIdle ==
    /\ cpc = "idle"
    /\ state = "present"
    /\ force = FALSE
    /\ ba_client_version = None
    /\ version_available = FALSE
    /\ client_installed = None
    /\ action = "none"
    /\ calls = <<>>
    /\ exit = "pending"

HelperIdle ==
    /\ hpc = "idle"
    /\ hentry = ""
    /\ rpm_installed = {}
    /\ dirs = {}
    /\ idx = 0
    /\ attempts = <<>>
    /\ successfully_uninstalled = <<>>
    /\ failed_packages = <<>>
    /\ hops = <<>>
    /\ hresult = "pending"
    /\ rollback_action = ""
    /\ pre_rpm = {}
    /\ results = <<>>

PureIdle ==
    /\ pure_call = [fn |-> ""]
    /\ pure_ret = NotCalled

ExecIdle ==
    /\ exec_call = [impl |-> "", os |-> "", cmd |-> "", dry_run |-> FALSE,
                    check |-> FALSE, host |-> ""]
    /\ exec_ret = NoResult

Init ==
    ServerInit /\ ClientIdle /\ HelperIdle /\ is_windows = FALSE /\ ExecIdle /\ PureIdle

Next ==
    \/ Run
    \/ InstallPrepare
    \/ InstallFind
    \/ DeployExtract
    \/ DeployResponse
    \/ DeployInstaller
    \/ InstallAfterDeploy
    \/ Rollback
    \/ RollbackAfterDeploy
    \/ Uninstall
    \/ Undeploy
    \/ Upgrade
    \/ UpgradeAfterUninstall
    \/ UpgradeAfterDeploy

Spec == Init /\ [][Next]_vars

ClientInit ==
    /\ cpc = "start"
    /\ state \in {"present", "absent"}
    /\ force \in BOOLEAN
    /\ ba_client_version \in Versions
    /\ version_available \in BOOLEAN
    /\ client_installed \in Versions \cup {None}
    /\ action = "none"
    /\ calls = <<>>
    /\ exit = "pending"

ServerIdle ==
    /\ entry = "run"
    /\ mode = "install"
    /\ component_id = ""
    /\ dry_run = FALSE
    /\ os_name = "linux"
    /\ newversion = None
    /\ artifacts = {}
    /\ os_artifacts = {}
    /\ imcl_exists = FALSE
    /\ installed = None
    /\ install_dir_exists = FALSE
    /\ extracted_exists = FALSE
    /\ pc = "idle"
    /\ caller = ""
    /\ deploy_artifact = None
    /\ deploy_version = None
    /\ sub_ok = FALSE
    /\ current_version = None
    /\ current_data = NoData
    /\ ops = <<>>
    /\ log = <<>>
    /\ result = "pending"
    /\ pre_installed = None

ClientNext ==
    \/ ClientStart
    \/ ClientInstall
    \/ ClientUpgrade
    \/ ClientAbsent
    \/ ClientFallback

InitClient ==
    /\ ClientInit /\ ServerIdle /\ HelperIdle /\ is_windows \in BOOLEAN
    /\ ExecIdle /\ PureIdle

SpecClient == InitClient /\ [][ClientNext]_vars

HelperInit ==
    /\ hentry \in {"uninstall_ba_client", "upgrade_ba_client", "rollback"}
    /\ hpc = IF hentry = "uninstall_ba_client" THEN "uninstall"
             ELSE IF hentry = "upgrade_ba_client" THEN "upgrade"
             ELSE "rollback"
    /\ rollback_action \in (IF hentry = "rollback"
                             THEN {"install", "uninstall", "upgrade"} ELSE {""})
    /\ is_windows \in BOOLEAN
    /\ rpm_installed \in SUBSET Packages
    /\ dirs \in SUBSET {backup_dir, upgrade_backup_dir}
    /\ idx = 0
    /\ attempts = <<>>
    /\ successfully_uninstalled = <<>>
    /\ failed_packages = <<>>
    /\ hops = <<>>
    /\ hresult = "pending"
    /\ pre_rpm = rpm_installed
    /\ results = <<>>

HelperNext ==
    \/ UninstallStart
    \/ UninstallStep
    \/ UninstallFinish
    \/ UpgradeClientStart
    \/ UpgradeClientInstall
    \/ rollback

InitHelper == HelperInit /\ ServerIdle /\ ClientIdle /\ ExecIdle /\ PureIdle

SpecHelper == InitHelper /\ [][HelperNext]_vars

ExecInit ==
    /\ exec_call \in [impl : ExecImpls, os : ExecOs, cmd : CmdShapes,
                       dry_run : BOOLEAN, check : BOOLEAN, host : HostOutcomes]
    /\ exec_ret = NoResult

InitExec ==
    /\ ExecInit /\ ServerIdle /\ ClientIdle /\ HelperIdle /\ is_windows = FALSE
    /\ PureIdle

SpecExec == InitExec /\ [][ExecRun]_vars

PureCalls == OsOskeyCalls \cup FindInstallerCalls \cup VersionCompareCalls
             \cup IsInstalledCalls \cup MainCalls

PureInit ==
    /\ pure_call \in PureCalls
    /\ pure_ret = NotCalled

PureNext ==
    \/ OsOskey
    \/ FindInstaller
    \/ VersionCompare
    \/ IsInstalled
    \/ Main

InitPure ==
    /\ PureInit /\ ServerIdle /\ ClientIdle /\ HelperIdle /\ is_windows = FALSE
    /\ ExecIdle

SpecPure == InitPure /\ [][PureNext]_vars

----------------------------------------------------------------------------
\* Properties

Range(seq) == {seq[i] : i \in DOMAIN seq}

Count(seq, x) == Cardinality({i \in DOMAIN seq : seq[i] = x})

\* operations that write to the host's file system whatever dry_run says
FsMutations == {"fs_remove_tree", "fs_ensure_dir", "write_xml",
                "update_package_offering[]", "update_package_offering[server]"}

\* operations that remove or replace what is installed
Destructive == {"fs_remove_tree", "fs_ensure_dir", "install_cmd", "uninstall_cmd"}

DiskCheckPassed == ~("need >=7500 MB free" \in Range(log))

\* C1: with dry_run set, no run of BA_SERVER_SETUP.run removes or creates a
\* directory or writes a response file.
C1_DryRunPurity ==
    (entry = "run" /\ dry_run) => Range(ops) \cap FsMutations = {}

\* C2: when find_installer finds no artifact, the operation ends without a
\* destructive action at any step of the run.
C2_NoArtifactNoDestruction ==
    "no installer found" \in Range(log) => Range(ops) \cap Destructive = {}

\* the operation's own _deploy (the one before any _rollback) returned False
OperationDeployFailed ==
    \E i \in DOMAIN ops :
        /\ ops[i] = "_deploy:False"
        /\ \A j \in 1..(i - 1) : ops[j] # "_rollback"

RollbackLogged ==
    \/ "install failed; attempting rollback" \in Range(log)
    \/ "upgrade install failed; rolling back" \in Range(log)

C4_RollbackRestoresPreOperationState ==
    /\ (caller = "rollback" => deploy_artifact = pre_installed)
    /\ (pc = "done" /\ "_rollback" \in Range(ops) /\ pre_installed = None)
            => installed = None

\* C5: install of the version that is already installed returns Success and
\* changes nothing: no directory removal or creation, no installer command.
C5_InstallIdempotent ==
    (/\ entry = "run"
     /\ mode = "install"
     /\ newversion # None
     /\ pre_installed = newversion
     /\ newversion \in artifacts)
    => /\ Range(ops) \cap Destructive = {}
       /\ (pc = "done" /\ DiskCheckPassed) => result = "True"

\* C6: uninstall of a component that is not installed returns Success and
\* performs no destructive operation, whether or not an artifact is available.
C6_UninstallIdempotent ==
    (/\ entry = "run"
     /\ mode = "uninstall"
     /\ pre_installed = None)
    => /\ Range(ops) \cap Destructive = {}
       /\ (pc = "done" /\ DiskCheckPassed) => result = "True"

\* C7: with state=absent main never calls install_ba_client or
\* upgrade_ba_client; it uninstalls when the client is installed and does
\* nothing when it is not.
C7_AbsentOnlyUninstalls ==
    state = "absent" =>
        /\ "install_ba_client" \notin Range(calls)
        /\ "upgrade_ba_client" \notin Range(calls)
        /\ (cpc = "done" /\ exit \notin {"fail_json", "traceback"}) =>
                \/ "uninstall_ba_client" \in Range(calls)
                \/ calls = <<"check_installed">> /\ client_installed = None

\* C8: run('upgrade') on a host without the component returns failure as a
\* result value, with no uninstall, no directory removal and no deploy.
C8_UpgradeRequiresInstallation ==
    (/\ entry = "run"
     /\ mode = "upgrade"
     /\ pre_installed = None)
    => /\ Range(ops) \cap Destructive = {}
       /\ "_deploy" \notin Range(ops)
       /\ (pc = "done" => result = "False")

\* C9: in upgrade an artifact that is not found ends the run as a no-op
\* Success without a destructive action; in install it ends the run as failed.
C9_ArtifactNotFound ==
    (/\ entry = "run"
     /\ pre_installed # None
     /\ ~find_installer(artifacts, newversion).status
     /\ DiskCheckPassed)
    => /\ mode = "upgrade" =>
            /\ Range(ops) \cap Destructive = {}
            /\ (pc = "done" => result = "True")
       /\ (mode = "install" /\ pc = "done") => result = "False"

\* C10: in upgrade a candidate that is not strictly newer than the installed
\* version ends the run as Success with the host unchanged.
C10_UpgradeUpToDate ==
    (/\ entry = "run"
     /\ mode = "upgrade"
     /\ pre_installed # None
     /\ newversion \in artifacts
     /\ ~version_is_newer(pre_installed, newversion)
     /\ DiskCheckPassed)
    => /\ Range(ops) \cap Destructive = {}
       /\ "_deploy" \notin Range(ops)
       /\ installed = pre_installed
       /\ (pc = "done" => result = "True")

\* the operation's own _deploy (the one before any _rollback) returned True
OperationDeploySucceeded ==
    \E i \in DOMAIN ops :
        /\ ops[i] = "_deploy:True"
        /\ \A j \in 1..(i - 1) : ops[j] # "_rollback"

\* C11: a verify failure is treated like a deploy failure: when the
\* operation's deploy succeeded on a real run and the Installation Manager
\* listing does not show the component afterwards, _rollback is invoked and
\* the run ends as failed.
C11_VerifyFailureRollsBack ==
    (/\ pc = "done"
     /\ ~dry_run
     /\ mode \in {"install", "upgrade"}
     /\ OperationDeploySucceeded
     /\ installed = None)
    => /\ "_rollback" \in Range(ops)
       /\ result = "False"

\* the process exit status of sp_server.main for a finished run: sys.exit(0),
\* sys.exit(-1) (seen as 255), or 1 when an exception escapes run
sp_server_exit ==
    IF result = "True" THEN 0 ELSE IF result = "False" THEN 255 ELSE 1

RollbackCalls == {"rollback(install)", "rollback(upgrade)", "rollback(uninstall)"}

\* C12: every run whose action failed ends with a failure indication:
\* sp_server.main exits non-zero when run did not return True, and
\* sp_baclient_install.main ends through fail_json or an uncaught exception,
\* never through exit_json, when the action raised and rollback was executed.
C12_FailureIsReported ==
    /\ (pc = "done" /\ result # "True") => sp_server_exit # 0
    /\ (cpc = "done" /\ Range(calls) \cap RollbackCalls # {})
            => exit \in {"fail_json", "traceback"}

\* install_ba_client was called and did not return
InstallBaClientFailed ==
    /\ "install_ba_client" \in Range(calls)
    /\ "configure_ba_client" \notin Range(calls)

\* C13: when install_ba_client fails in the install branch of
\* sp_baclient_install.main, also when it reports the failed installer command
\* through module.fail_json, utils.rollback(action='install') is called before
\* the module exits.
C13_ClientInstallFailureRollsBack ==
    (cpc = "done" /\ InstallBaClientFailed) => "rollback(install)" \in Range(calls)

\* C14: in uninstall_ba_client a failed package removal makes the whole
\* uninstall end through fail_json with the backup directory still in place;
\* the backup directory is deleted only when every attempted removal succeeded.
C14_BackupKeptOnFailure ==
    /\ failed_packages # <<>> =>
            /\ backup_dir \in dirs
            /\ hresult \in {"pending", "fail_json"}
            /\ (hpc = "done" => hresult = "fail_json")
    /\ "rmtree(backup_dir)" \in Range(hops) =>
            /\ failed_packages = <<>>
            /\ \A i \in DOMAIN attempts : attempts[i][2]

\* an uninstall that removed some packages, failed on another and ended failed
C14_Witness ==
    /\ hentry = "uninstall_ba_client"
    /\ hpc = "done"
    /\ hresult = "fail_json"
    /\ failed_packages # <<>>
    /\ successfully_uninstalled # <<>>
    /\ backup_dir \in dirs

Pos(pkg) == CHOOSE i \in DOMAIN uninstall_order : uninstall_order[i] = pkg

\* the packages of the attempts whose command ended with rc = 0 (ok) or not
AttemptedWith(ok) ==
    LET sel == SelectSeq(attempts, LAMBDA a : a[2] = ok)
    IN  [i \in 1..Len(sel) |-> sel[i][1]]

\* C16: uninstall_ba_client attempts the removals in the order of
\* uninstall_order; a failed removal does not stop the later ones (once the
\* loop is over every package that was installed has been attempted); the
\* failure list holds exactly the packages whose command returned non-zero.
C16_UninstallOrder ==
    /\ \A i, j \in DOMAIN attempts :
            i < j => Pos(attempts[i][1]) < Pos(attempts[j][1])
    /\ idx > Len(uninstall_order) =>
            {attempts[i][1] : i \in DOMAIN attempts} = pre_rpm
    /\ failed_packages = AttemptedWith(FALSE)
    /\ successfully_uninstalled = AttemptedWith(TRUE)

\* a removal failed and a later package was still attempted and removed
C16_Witness ==
    /\ idx > Len(uninstall_order)
    /\ \E i, j \in DOMAIN attempts : i < j /\ ~attempts[i][2] /\ attempts[j][2]

\* C15: during upgrade_ba_client on Linux the directory rollback(action=
\* 'upgrade') reinstalls from exists at every point from the destructive
\* uninstall on where a later step can fail and trigger that rollback: while
\* the packages are removed, while the new version is installed and verified,
\* and when the rollback starts.
C15_UpgradeBackupAvailable ==
    (/\ hentry = "upgrade_ba_client"
     /\ ~is_windows
     /\ hpc \in {"uninstall_loop", "upgrade_install", "rollback"})
    => backup_dir \in dirs

\* C17: rollback never raises: once BAClientHelper.rollback has run, called
\* directly with any action on either platform or from the handler of a
\* failed upgrade, it has returned a result; and no run of BA_SERVER_SETUP
\* ends with an exception raised under _rollback.
C17_RollbackNeverRaises ==
    /\ (/\ hpc = "done"
        /\ hentry = "rollback" \/ "rollback(upgrade)" \in Range(hops))
       => hresult = "returned"
    /\ caller = "rollback" => result # "raised"

ExecutionFailures == {"FileNotFoundError", "PermissionError", "TimeoutExpired"}

\* C18: with dry_run off exec_run never throws, for a string and for a list,
\* on every platform; a failure to execute comes back as a result with a
\* non-zero rc and a stderr message.
C18_ExecRunNeverThrows ==
    (exec_ret # NoResult /\ ~exec_call.dry_run) =>
        /\ exec_ret.state = "returned"
        /\ exec_call.host \in ExecutionFailures =>
                exec_ret.rc # 0 /\ exec_ret.stderr # ""

\* C19: with dry_run on exec_run returns rc 0 with empty stdout and stderr
\* for every command and starts no process.
C19_DryRunExec ==
    (exec_ret # NoResult /\ exec_call.dry_run) =>
        /\ exec_ret.state = "returned"
        /\ exec_ret.rc = 0
        /\ exec_ret.stdout = ""
        /\ exec_ret.stderr = ""
        /\ ~exec_ret.started

\* C20: run performs the free-space check (at least 7500 MB) before anything
\* else, and when the check fails the run returns False having done nothing
\* else: no directory removal, no extraction, no installer or uninstaller
\* command, no rollback.
C20_DiskCheckFirst ==
    /\ fs_require_free_mb(7500) /\ ~fs_require_free_mb(7499)
    /\ entry = "run" =>
        /\ ops # <<>> => ops[1] = "fs_require_free_mb"
        /\ ~DiskCheckPassed =>
                /\ pc = "done"
                /\ result = "False"
                /\ ops = <<"fs_require_free_mb">>

\* a run that ended on the failed free-space check
C20_Witness ==
    /\ entry = "run"
    /\ ~DiskCheckPassed
    /\ pc = "done"
    /\ result = "False"

\* the key the rules of the platform key resolver give
ResolvedKey(family_in, id_in) ==
    LET f == lower(family_in)
        d == lower(id_in)
    IN  IF f = "windows" THEN "windows"
        ELSE IF f = "linux"
        THEN IF d \in {"rhel", "centos", "rocky", "almalinux", "oraclelinux"}
             THEN "rhel" ELSE "linux"
        ELSE IF f \in {"aix", "unix"} THEN "aix"
        ELSE IF f = "" THEN "unknown"
        ELSE f

\* C21: for every (family, distro id) pair the key run takes from os_oskey is
\* the key the resolver's rules give: windows, rhel for the RHEL-family
\* distributions, linux for the other ones, aix for aix and unix, the
\* lowercased family otherwise, unknown for an empty family.
C21_PlatformKey ==
    (pure_call.fn = "os_oskey" /\ pure_ret # NotCalled) =>
        pure_ret.key = ResolvedKey(pure_call.family, pure_call.id)

\* the candidates of a find_installer call that carry the requested version
Matches ==
    {p \in Range(pure_call.listing) :
        /\ p.suffix = InstallerExt(pure_call.oskey)
        /\ p.version = pure_call.version}

\* C22: find_installer with an explicit version returns not-found when no
\* candidate's name begins with "<version>-"; otherwise the lexicographically
\* first matching file, with exactly the other matches as alternates, whatever
\* the order in which the directory yields the files.
C22_ExplicitVersion ==
    (/\ pure_call.fn = "find_installer"
     /\ pure_call.version # None
     /\ pure_ret # NotCalled)
    => LET r == pure_ret.value
       IN  IF Matches = {} THEN ~r.status /\ r.installerfile = None
           ELSE /\ r.status
                /\ r.installerfile \in Matches
                /\ \A p \in Matches : ~NameLess(p, r.installerfile)
                /\ Range(r.other_files) = Matches \ {r.installerfile}
                /\ Len(r.other_files) = Cardinality(Matches) - 1

\* two files match and the directory yields the lexicographically later first
C22_Witness ==
    /\ pure_call.fn = "find_installer"
    /\ pure_call.version # None
    /\ pure_ret # NotCalled
    /\ Cardinality(Matches) = 2
    /\ \E i, j \in DOMAIN pure_call.listing :
            /\ i < j
            /\ pure_call.listing[i] \in Matches
            /\ pure_call.listing[j] = pure_ret.value.installerfile

\* the listings that hold the same files in another order
Reorderings(listing) ==
    {l \in Listings : Len(l) = Len(listing) /\ Range(l) = Range(listing)}

\* C23: find_installer without a version returns a candidate whose version
\* prefix parses to the maximum among the candidates, and the file it returns
\* is the same for every order in which the directory yields the same files.
C23_LatestVersion ==
    (/\ pure_call.fn = "find_installer"
     /\ pure_call.version = None
     /\ pure_ret # NotCalled
     /\ pure_ret.value.status
     /\ pure_ret.value.installerfile.version # None)
    => LET r == pure_ret.value
       IN  /\ \A p \in Range(pure_call.listing) :
                (p.suffix = InstallerExt(pure_call.oskey) /\ p.version # None)
                => ~IntTupleLess(_parse_version(r.installerfile.version),
                                 _parse_version(p.version))
           /\ \A l \in Reorderings(pure_call.listing) :
                find_installer_in(l, pure_call.oskey, None).installerfile
                    = r.installerfile

\* B's integers are lexicographically greater than A's, segment by segment
NumericallyGreater(b, a) ==
    \E k \in 1..Len(a) :
        /\ \A i \in 1..(k - 1) : int(a[i]) = int(b[i])
        /\ int(a[k]) < int(b[k])

\* C24: for version strings A and B with the same number of all-numeric
\* segments, version_is_newer(A, B) holds exactly when B's integer tuple is
\* lexicographically greater than A's (so it is false when A equals B), and
\* _parse_version and normalize_version order the pair the same way.
C24_NumericComparison ==
    (pure_call.fn = "version_compare" /\ pure_ret # NotCalled) =>
        /\ pure_ret.newer = NumericallyGreater(pure_call.b, pure_call.a)
        /\ pure_ret.parsed_less = pure_ret.newer
        /\ pure_ret.normalized_less = pure_ret.newer
        /\ pure_call.a = pure_call.b => ~pure_ret.newer

\* 1.10 against 1.9: newer by number, older as a string
C24_Witness ==
    /\ pure_call.fn = "version_compare"
    /\ pure_ret # NotCalled
    /\ pure_call.a = <<(<<1>>), (<<9>>)>>
    /\ pure_call.b = <<(<<1>>), (<<1, 0>>)>>
    /\ pure_ret.newer

\* some line of the listing, at any position, holds the component's id
SomeLineMatches(lines) ==
    \E i \in 1..Len(lines) :
        lower(lines[i].id) = lower(offerings_metadata[componentname].id)

\* C25: with the tracking tool present and the list command at rc 0,
\* ba_is_installed reports status true with the component's package id in
\* installedpackages exactly when some line of the output, at any position,
\* contains the id; when no line matches, status is false and the map is empty.
C25_ScansEveryLine ==
    (pure_call.fn = "ba_is_installed" /\ pure_ret # NotCalled) =>
        IF SomeLineMatches(pure_call.lines)
        THEN /\ pure_ret.status
             /\ offerings_metadata[componentname].id \in DOMAIN pure_ret.installedpackages
        ELSE /\ ~pure_ret.status
             /\ pure_ret.installedpackages = <<>>

\* C26: with state=present and force=true (the package being available), a
\* run of sp_baclient_install that exits normally has run install_ba_client
\* (or the upgrade), even when the desired version is already installed.
C26_ForceReinstalls ==
    (/\ cpc = "done"
     /\ state = "present"
     /\ force
     /\ version_available
     /\ exit \in {"exit_json(changed=True)", "exit_json(changed=False)"})
        => \E i \in 1..Len(calls) :
              calls[i] \in {"install_ba_client", "upgrade_ba_client"}

\* where pkg stands in the removals of the install rollback (0: not attempted)
RemovedAt(pkg) ==
    IF \E i \in DOMAIN results : results[i][1] = pkg
    THEN CHOOSE i \in DOMAIN results : results[i][1] = pkg
    ELSE 0

\* C27: rollback(action='install') on Linux removes the packages in strict
\* reverse of the install order of the reinstall path: every package of the
\* install order is attempted, whatever the outcome of the earlier removals,
\* and of two packages the one installed later is removed first.
C27_RollbackReverseOrder ==
    (/\ hpc = "done"
     /\ hentry = "rollback"
     /\ rollback_action = "install"
     /\ ~is_windows)
    => /\ \A i \in DOMAIN reinstall_order : RemovedAt(reinstall_order[i]) > 0
       /\ \A i, j \in DOMAIN reinstall_order :
             i < j => RemovedAt(reinstall_order[j]) < RemovedAt(reinstall_order[i])

\* _rollback is entered at most once and _deploy at most twice, the second
\* time inside _rollback
BoundedRetries ==
    /\ Count(ops, "_rollback") <= 1
    /\ Count(ops, "_deploy") <= 2
    /\ Count(ops, "_deploy") = 2 => Count(ops, "_rollback") = 1

\* C28: a run of BA_SERVER_SETUP.run ends in one of the outcomes Success
\* (True), failed after rollback or failed with no rollback available (False);
\* within a run _rollback is entered at most once and _deploy at most twice,
\* and a failed deploy inside _rollback starts no other rollback.
C28_RunOutcomes ==
    entry = "run" =>
        /\ pc = "done" => result \in {"True", "False"}
        /\ BoundedRetries

\* the version the detector reported for the component, None when it
\* reported none
ReportedVersion ==
    LET id == offerings_metadata[componentname].id
    IN  IF current_data.status /\ id \in DOMAIN current_data.installedpackages
        THEN current_data.installedpackages[id]
        ELSE None

\* C29: when the detector reports the component installed at a version equal
\* to or newer than the candidate, _deploy leaves the component's offering out
\* of the response file.
C29_NoOlderOffering ==
    (/\ pc = "deploy_installer"
     /\ deploy_version # None
     /\ ReportedVersion # None
     /\ ~version_is_newer(ReportedVersion, deploy_version))
    => ~OfferingSubmitted

\* C30: for install and upgrade main exits with a non-zero status before
\* BA_SERVER_SETUP is constructed when neither SP_BA_SERVER_PASSWORD nor
\* --serverpassword is given; when both are given the value of the environment
\* variable is the one stored in the context; uninstall needs no password.
C30_PasswordPrecheck ==
    (pure_call.fn = "main" /\ pure_ret # NotCalled) =>
        /\ (/\ pure_call.mode \in {"install", "upgrade"}
            /\ pure_call.envvar = PyNone
            /\ pure_call.serverpassword = PyNone)
           => pure_ret.state = "sys.exit(-1)" /\ ~pure_ret.constructed
        /\ (/\ pure_call.mode \in {"install", "upgrade"}
            /\ pure_call.envvar # PyNone
            /\ pure_call.serverpassword # PyNone)
           => /\ pure_ret.constructed
              /\ pure_ret.password_in_data
              /\ pure_ret.password = pure_call.envvar
        /\ pure_call.mode = "uninstall" => pure_ret.constructed

\* install with both passwords given: the environment's one is in the context
C30_Witness ==
    /\ pure_call.fn = "main"
    /\ pure_call.mode = "install"
    /\ pure_call.envvar = "env-secret"
    /\ pure_call.serverpassword = "cli-secret"
    /\ pure_ret # NotCalled
    /\ pure_ret.password = "env-secret"

====
